---- MODULE Spec2Model ----
(***************************************************************************)
(* Model of chrome-extension/conf/native_host.py: the native-messaging     *)
(* bridge of JARMGuard.  The framing channel (send_message, read_message), *)
(* the output parser (scan_jarm) and the dispatch loop (main) are modelled *)
(* at byte level: a frame is a sequence of bytes 0..255, a str is a        *)
(* sequence of code points, a JSON value is a tagged record.               *)
(***************************************************************************)
EXTENDS Integers, Sequences, FiniteSets, TLC

(***************************************************************************)
(* Text.  A Python str is a sequence of code points; the literals of the   *)
(* source are written as tuples of one-character strings and mapped to     *)
(* their code points by Str.                                               *)
(***************************************************************************)
Printable ==
  <<" ", "!", "\"", "#", "$", "%", "&", "'", "(", ")", "*", "+", ",", "-", ".", "/",
    "0", "1", "2", "3", "4", "5", "6", "7", "8", "9", ":", ";", "<", "=", ">", "?", "@",
    "A", "B", "C", "D", "E", "F", "G", "H", "I", "J", "K", "L", "M",
    "N", "O", "P", "Q", "R", "S", "T", "U", "V", "W", "X", "Y", "Z",
    "[", "\\", "]", "^", "_", "<grave>",
    "a", "b", "c", "d", "e", "f", "g", "h", "i", "j", "k", "l", "m",
    "n", "o", "p", "q", "r", "s", "t", "u", "v", "w", "x", "y", "z",
    "{", "|", "}", "~">>

Ord(c) ==
  IF c = "\n" THEN 10
  ELSE IF c = "\t" THEN 9
  ELSE IF c = "\r" THEN 13
  ELSE CHOOSE i \in 32..126 : Printable[i - 31] = c

Str(t) == [i \in 1..Len(t) |-> Ord(t[i])]

\* s[k:] and s[:k]
Drop(s, k) == SubSeq(s, k + 1, Len(s))
Take(s, k) == SubSeq(s, 1, IF k < Len(s) THEN k ELSE Len(s))

\* the smallest element of a set of indices, d for the empty set
MinOr(S, d) == IF S = {} THEN d ELSE CHOOSE j \in S : \A k \in S : j <= k

\* the largest element of a set of indices, d for the empty set
MaxOr(S, d) == IF S = {} THEN d ELSE CHOOSE j \in S : \A k \in S : j >= k

\* the first index j >= i with s[j] in C, Len(s) + 1 when there is none
FirstIn(s, i, C) == MinOr({j \in i..Len(s) : s[j] \in C}, Len(s) + 1)

\* the first index j >= i with s[j] outside C, Len(s) + 1 when there is none
FirstNotIn(s, i, C) == MinOr({j \in i..Len(s) : s[j] \notin C}, Len(s) + 1)

\* the last index j with s[j] outside C, 0 when there is none
LastNotIn(s, C) == MaxOr({j \in 1..Len(s) : s[j] \notin C}, 0)

\* str.startswith(prefix)
StartsWith(s, p) == Len(s) >= Len(p) /\ SubSeq(s, 1, Len(p)) = p

\* characters that str.strip() removes (the whitespace code points below 256)
Spaces == {9, 10, 11, 12, 13, 28, 29, 30, 31, 32, 133, 160}

IsSpace(c) == c \in Spaces

LStrip(s) == Drop(s, FirstNotIn(s, 1, Spaces) - 1)

RStrip(s) == Take(s, LastNotIn(s, Spaces))

\* str.strip()
Strip(s) == RStrip(LStrip(s))

\* str.lower() on the code points below 256
LowerChar(c) ==
  IF (c >= 65 /\ c <= 90) \/ (c >= 192 /\ c <= 222 /\ c # 215) THEN c + 32 ELSE c

Lower(s) == [i \in 1..Len(s) |-> LowerChar(s[i])]

\* index of the first occurrence of c in s, 0 when there is none
Find(s, c) == FirstIn(s, 1, {c}) % (Len(s) + 1)

RECURSIVE SplitLines(_)
\* the piece before the newline at index k, then the pieces of the rest
SplitAt(s, k) ==
  IF k = 0 THEN <<s>> ELSE <<SubSeq(s, 1, k - 1)>> \o SplitLines(Drop(s, k))

\* str.split('\n'): the list of the pieces between newlines, never empty
SplitLines(s) == SplitAt(s, Find(s, 10))

\* line.split(':', 1)[1]: everything after the first colon
AfterColon(line) == Drop(line, Find(line, 58))

\* sub in s, for two str
IsSubstring(sub, s) ==
  \E k \in 0..(Len(s) - Len(sub)) : SubSeq(s, k + 1, k + Len(sub)) = sub

(***************************************************************************)
(* JSON values.  Every value is a record of the same shape so that any two *)
(* can be compared: t is the type tag, s the characters of a str or the    *)
(* one integer of a number, items the <<key, value>> pairs of a dict in    *)
(* insertion order or the <<(empty), value>> pairs of a list.              *)
(***************************************************************************)
JNull == [t |-> "null", s |-> <<>>, items |-> <<>>]
JBool(b) == [t |-> IF b THEN "true" ELSE "false", s |-> <<>>, items |-> <<>>]
JNum(n) == [t |-> "num", s |-> <<n>>, items |-> <<>>]
JStr(s) == [t |-> "str", s |-> s, items |-> <<>>]
JList(vals) == [t |-> "list", s |-> <<>>,
                items |-> [i \in 1..Len(vals) |-> <<(<<>>), vals[i]>>]]
JDict(pairs) == [t |-> "dict", s |-> <<>>, items |-> pairs]

Keys(d) == {d.items[i][1] : i \in 1..Len(d.items)}

\* d[key] of a dict that has the key
Get(d, key) ==
  d.items[CHOOSE i \in 1..Len(d.items) : d.items[i][1] = key][2]

\* dict assignment d[key] = v on the list of pairs: an existing key keeps its
\* position and takes the new value, a new key is appended
DictSet(pairs, key, v) ==
  IF \E i \in 1..Len(pairs) : pairs[i][1] = key
  THEN [i \in 1..Len(pairs) |->
          IF pairs[i][1] = key THEN <<key, v>> ELSE pairs[i]]
  ELSE Append(pairs, <<key, v>>)

\* bool(v): the truth value Python gives a decoded JSON value
Truthy(v) ==
  CASE v.t = "null" -> FALSE
    [] v.t = "false" -> FALSE
    [] v.t = "true" -> TRUE
    [] v.t = "num" -> v.s[1] # 0
    [] v.t = "str" -> v.s # <<>>
    [] OTHER -> v.items # <<>>

(***************************************************************************)
(* json.dumps with its defaults (ensure_ascii, separators ', ' and ': ').  *)
(***************************************************************************)
HexDigits ==
  Str(<<"0", "1", "2", "3", "4", "5", "6", "7", "8", "9", "a", "b", "c", "d", "e", "f">>)

Hex4(c) ==
  <<HexDigits[((c \div 4096) % 16) + 1], HexDigits[((c \div 256) % 16) + 1],
    HexDigits[((c \div 16) % 16) + 1], HexDigits[(c % 16) + 1]>>

\* the escape of one character of a str (code points below 65536)
EscapeChar(c) ==
  CASE c = 34 -> Str(<<"\\", "\"">>)
    [] c = 92 -> Str(<<"\\", "\\">>)
    [] c = 10 -> Str(<<"\\", "n">>)
    [] c = 13 -> Str(<<"\\", "r">>)
    [] c = 9 -> Str(<<"\\", "t">>)
    [] c = 8 -> Str(<<"\\", "b">>)
    [] c = 12 -> Str(<<"\\", "f">>)
    [] c >= 32 /\ c <= 126 /\ c # 34 /\ c # 92 -> <<c>>
    [] OTHER -> Str(<<"\\", "u">>) \o Hex4(c)

\* the characters ESCAPE_ASCII leaves alone: ' '..'~' without \ and "
PlainChars == (32..126) \ {34, 92}

RECURSIVE EscapeAll(_)
\* the run of plain characters before index j is copied as it is
EscapeAt(s, j) ==
  IF j > Len(s) THEN s
  ELSE SubSeq(s, 1, j - 1) \o EscapeChar(s[j]) \o EscapeAll(Drop(s, j))

EscapeAll(s) == EscapeAt(s, FirstNotIn(s, 1, PlainChars))

DumpStr(s) == <<34>> \o EscapeAll(s) \o <<34>>

RECURSIVE Digits(_)
Digits(n) ==
  IF n < 10 THEN <<48 + n>> ELSE Digits(n \div 10) \o <<48 + (n % 10)>>

DumpNum(n) == IF n < 0 THEN <<45>> \o Digits(0 - n) ELSE Digits(n)

RECURSIVE dumps(_), DumpItems(_, _)
\* json.dumps(v): the JSON text of a value
dumps(v) ==
  CASE v.t = "null" -> Str(<<"n", "u", "l", "l">>)
    [] v.t = "true" -> Str(<<"t", "r", "u", "e">>)
    [] v.t = "false" -> Str(<<"f", "a", "l", "s", "e">>)
    [] v.t = "num" -> DumpNum(v.s[1])
    [] v.t = "str" -> DumpStr(v.s)
    [] v.t = "list" -> <<91>> \o DumpItems(v.items, FALSE) \o <<93>>
    [] v.t = "dict" -> <<123>> \o DumpItems(v.items, TRUE) \o <<125>>

\* one member of a dict ("key": value) or of a list
DumpItem(item, withKey) ==
  (IF withKey THEN DumpStr(item[1]) \o <<58, 32>> ELSE <<>>) \o dumps(item[2])

\* the members joined by ", "
DumpItems(items, withKey) ==
  IF items = <<>> THEN <<>>
  ELSE DumpItem(items[1], withKey)
       \o (IF Len(items) = 1 THEN <<>> ELSE <<44, 32>> \o DumpItems(Tail(items), withKey))

RECURSIVE EncodeUtf8(_)
\* the run of ASCII before index j is copied, s[j] takes two bytes
EncodeAt(s, j) ==
  IF j > Len(s) THEN s
  ELSE SubSeq(s, 1, j - 1) \o <<192 + (s[j] \div 64), 128 + (s[j] % 64)>>
       \o EncodeUtf8(Drop(s, j))

\* str.encode('utf-8') for code points below 2048
EncodeUtf8(s) == EncodeAt(s, FirstNotIn(s, 1, 0..127))

(***************************************************************************)
(* json.loads on bytes: UTF-8 decoding, then the JSON decoder.  A result   *)
(* is [ok, v, i]: whether a value was decoded, the value, and the index of *)
(* the first character after it.  Modelled inputs: one- and two-byte UTF-8 *)
(* sequences, integers without fraction or exponent, no NaN/Infinity, no   *)
(* surrogate pairs.                                                        *)
(***************************************************************************)
Fail == [ok |-> FALSE, v |-> JNull, i |-> 0]
Ok(v, i) == [ok |-> TRUE, v |-> v, i |-> i]

RECURSIVE DecodeFrom(_, _, _)
\* the ASCII run b[i..j-1] is copied; b[j], if any, starts a two-byte sequence
DecodeAt(b, i, acc, j) ==
  IF j > Len(b) THEN [ok |-> TRUE, s |-> acc \o SubSeq(b, i, j - 1)]
  ELSE IF b[j] >= 194 /\ b[j] <= 223 /\ j < Len(b) /\ b[j + 1] >= 128 /\ b[j + 1] <= 191
    THEN DecodeFrom(b, j + 2,
           Append(acc \o SubSeq(b, i, j - 1), (b[j] - 192) * 64 + (b[j + 1] - 128)))
  ELSE [ok |-> FALSE, s |-> <<>>]

DecodeFrom(b, i, acc) == DecodeAt(b, i, acc, FirstNotIn(b, i, 0..127))

\* bytes.decode('utf-8'): [ok, s]
DecodeUtf8(b) == DecodeFrom(b, 1, <<>>)

\* the decoder's WHITESPACE: space, \t, \n, \r
SkipWs(s, i) == FirstNotIn(s, i, {32, 9, 10, 13})

HexVal(c) ==
  IF c >= 48 /\ c <= 57 THEN c - 48
  ELSE IF c >= 97 /\ c <= 102 THEN c - 87
  ELSE IF c >= 65 /\ c <= 70 THEN c - 55
  ELSE 0 - 1

\* the character a one-letter escape stands for, -1 for an invalid escape
Unescape(c) ==
  CASE c = 34 -> 34
    [] c = 92 -> 92
    [] c = 47 -> 47
    [] c = 98 -> 8
    [] c = 102 -> 12
    [] c = 110 -> 10
    [] c = 114 -> 13
    [] c = 116 -> 9
    [] OTHER -> 0 - 1

\* scanstring: i is the index after the opening quote
\* STRINGCHUNK stops at a quote, a backslash or a control character
ChunkEnds == (0..31) \cup {34, 92}

\* the code point of the four hex digits s[j..j+3]
Hex4Val(s, j) ==
  HexVal(s[j]) * 4096 + HexVal(s[j + 1]) * 256 + HexVal(s[j + 2]) * 16 + HexVal(s[j + 3])

RECURSIVE ScanString(_, _, _)
\* the chunk s[i..j-1] is plain; s[j], if any, is a quote, a backslash or a
\* control character
ScanAt(s, i, acc, j) ==
  IF j > Len(s) THEN Fail
  ELSE IF s[j] = 34 THEN Ok(JStr(acc \o SubSeq(s, i, j - 1)), j + 1)
  ELSE IF s[j] < 32 THEN Fail
  ELSE IF j + 1 > Len(s) THEN Fail
  ELSE IF s[j + 1] = 117
    THEN IF j + 5 > Len(s) \/ \E k \in 2..5 : HexVal(s[j + k]) < 0 THEN Fail
         ELSE ScanString(s, j + 6, Append(acc \o SubSeq(s, i, j - 1), Hex4Val(s, j + 2)))
  ELSE IF Unescape(s[j + 1]) < 0 THEN Fail
  ELSE ScanString(s, j + 2, Append(acc \o SubSeq(s, i, j - 1), Unescape(s[j + 1])))

\* scanstring: i is the index after the opening quote
ScanString(s, i, acc) == ScanAt(s, i, acc, FirstIn(s, i, ChunkEnds))

IsDigit(c) == c >= 48 /\ c <= 57

\* int() of a run of digits
RECURSIVE IntOf(_)
IntOf(ds) ==
  IF ds = <<>> THEN 0 ELSE IntOf(SubSeq(ds, 1, Len(ds) - 1)) * 10 + (ds[Len(ds)] - 48)

\* the digits s[j..e-1] as an int
DigitsTo(s, j, e) == Ok(JNum(IntOf(SubSeq(s, j, e - 1))), e)

\* NUMBER_RE without the sign: 0|[1-9][0-9]*
ParseUnsigned(s, j) ==
  IF j > Len(s) \/ ~IsDigit(s[j]) THEN Fail
  ELSE IF s[j] = 48 THEN Ok(JNum(0), j + 1)
  ELSE DigitsTo(s, j, FirstNotIn(s, j, 48..57))

Negate(r) == IF r.ok THEN Ok(JNum(0 - r.v.s[1]), r.i) ELSE Fail

\* NUMBER_RE, integer part: -?(0|[1-9][0-9]*)
ParseNumber(s, i) ==
  IF s[i] = 45 THEN Negate(ParseUnsigned(s, i + 1)) ELSE ParseUnsigned(s, i)

LitAt(s, i, lit) == i + Len(lit) - 1 <= Len(s) /\ SubSeq(s, i, i + Len(lit) - 1) = lit

RECURSIVE ParseValue(_, _), ParseMembers(_, _, _), ParseElements(_, _, _)
\* after '{' and whitespace: '}' or the first member
ObjectAt(s, j) ==
  IF j <= Len(s) /\ s[j] = 125 THEN Ok(JDict(<<>>), j + 1) ELSE ParseMembers(s, j, <<>>)

\* after '[' and whitespace: ']' or the first element
ArrayAt(s, j) ==
  IF j <= Len(s) /\ s[j] = 93 THEN Ok(JList(<<>>), j + 1) ELSE ParseElements(s, j, <<>>)

\* the literal lit at index i stands for the value v
Literal(s, i, lit, v) == IF LitAt(s, i, lit) THEN Ok(v, i + Len(lit)) ELSE Fail

\* scan_once: the value that starts at index i
ParseValue(s, i) ==
  IF i > Len(s) THEN Fail
  ELSE CASE s[i] = 34 -> ScanString(s, i + 1, <<>>)
         [] s[i] = 123 -> ObjectAt(s, SkipWs(s, i + 1))
         [] s[i] = 91 -> ArrayAt(s, SkipWs(s, i + 1))
         [] s[i] = 110 -> Literal(s, i, Str(<<"n", "u", "l", "l">>), JNull)
         [] s[i] = 116 -> Literal(s, i, Str(<<"t", "r", "u", "e">>), JBool(TRUE))
         [] s[i] = 102 -> Literal(s, i, Str(<<"f", "a", "l", "s", "e">>), JBool(FALSE))
         [] s[i] = 45 \/ IsDigit(s[i]) -> ParseNumber(s, i)
         [] OTHER -> Fail

\* after a member: '}' ends the object, ',' announces the next key
MemberEnd(s, pairs, e) ==
  IF e > Len(s) THEN Fail
  ELSE IF s[e] = 125 THEN Ok(JDict(pairs), e + 1)
  ELSE IF s[e] = 44 THEN ParseMembers(s, SkipWs(s, e + 1), pairs)
  ELSE Fail

\* val is the result of parsing the value of the member key
AfterValue(s, pairs, key, val) ==
  IF ~val.ok THEN Fail ELSE MemberEnd(s, DictSet(pairs, key, val.v), SkipWs(s, val.i))

\* c is where the colon after the key is expected
AtColon(s, pairs, key, c) ==
  IF c > Len(s) \/ s[c] # 58 THEN Fail
  ELSE AfterValue(s, pairs, key, ParseValue(s, SkipWs(s, c + 1)))

\* k is the result of scanning the key
AfterKey(s, pairs, k) ==
  IF ~k.ok THEN Fail ELSE AtColon(s, pairs, k.v.s, SkipWs(s, k.i))

\* JSONObject after '{': i is where the quote of the next key is expected
ParseMembers(s, i, pairs) ==
  IF i > Len(s) \/ s[i] # 34 THEN Fail ELSE AfterKey(s, pairs, ScanString(s, i + 1, <<>>))

\* after an element: ']' ends the array, ',' announces the next element
ElementEnd(s, vals, e) ==
  IF e > Len(s) THEN Fail
  ELSE IF s[e] = 93 THEN Ok(JList(vals), e + 1)
  ELSE IF s[e] = 44 THEN ParseElements(s, SkipWs(s, e + 1), vals)
  ELSE Fail

\* val is the result of parsing an element
AfterElement(s, vals, val) ==
  IF ~val.ok THEN Fail ELSE ElementEnd(s, Append(vals, val.v), SkipWs(s, val.i))

\* JSONArray after '[': i is where the next element starts
ParseElements(s, i, vals) == AfterElement(s, vals, ParseValue(s, i))

\* r is the value decoded at the start of s: nothing but whitespace may follow
Whole(s, r) == IF r.ok /\ SkipWs(s, r.i) = Len(s) + 1 THEN r ELSE Fail

\* JSONDecoder.decode on the decoded text d = [ok, s]
LoadText(d) == IF ~d.ok THEN Fail ELSE Whole(d.s, ParseValue(d.s, SkipWs(d.s, 1)))

\* json.loads(data): ok is FALSE where it raises (UnicodeDecodeError,
\* JSONDecodeError: no value, or extra data after the value)
loads(data) == LoadText(DecodeUtf8(data))

(***************************************************************************)
(* The framing channel.                                                    *)
(***************************************************************************)
\* len(encoded).to_bytes(4, byteorder='little'), for lengths below 2^32
ToBytes4(n) ==
  <<n % 256, (n \div 256) % 256, (n \div 65536) % 256, (n \div 16777216) % 256>>

\* (variant: the header read in big-endian order)
RECURSIVE FromBytes_big(_)
FromBytes_big(raw) ==
  IF raw = <<>> THEN 0 ELSE raw[Len(raw)] + 256 * FromBytes_big(SubSeq(raw, 1, Len(raw) - 1))

\* int.from_bytes(raw, byteorder='little'), for any number of bytes
RECURSIVE FromBytes(_)
FromBytes(raw) ==
  IF raw = <<>> THEN 0 ELSE raw[1] + 256 * FromBytes(Tail(raw))

\* a frame: the header states the length of the payload that follows it
WellFramed(payload) == ToBytes4(Len(payload)) \o payload

\* the bytes send_message writes for one message: the header, then the payload
Frame(message) == WellFramed(EncodeUtf8(dumps(message)))

\* sys.stdout as the peer and the process see it: out holds the bytes that
\* have reached the peer, buffer the bytes the BufferedWriter still holds
Writer(out, buffer) == [out |-> out, buffer |-> buffer]

\* sys.stdout.buffer.write(data)
Write(w, data) == [w EXCEPT !.buffer = @ \o data]

\* (variant: the flush is missing)
Flush_none(w) == w

\* sys.stdout.flush()
Flush(w) == Writer(w.out \o w.buffer, <<>>)

\* lines 10-12 of send_message: the header, the payload, the flush
WriteFrame(w, encoded) == Flush(Write(Write(w, ToBytes4(Len(encoded))), encoded))

\* send_message(message): the output stream after the two writes and the flush
send_message(out, message) == WriteFrame(Writer(out, <<>>), EncodeUtf8(dumps(message))).out

\* (variant: any header shorter than 4 bytes counts as the end of the stream)
NoHeader_short(raw_length) == Len(raw_length) < 4

\* (variant: the test for the empty header is missing)
NoHeader_never(raw_length) == FALSE

\* `not raw_length`: no byte at all was read for the header
NoHeader(raw_length) == raw_length = <<>>

\* what read_message hands back: ret is the value returned (None is JNull),
\* raised tells that json.loads raised instead, eof that the None came from
\* the empty header; the rest records what was read
Returned(raw_length, message_length, message_data, decoded) ==
  [ret |-> decoded.v, raised |-> ~decoded.ok, eof |-> FALSE,
   raw_length |-> raw_length, message_length |-> message_length,
   message_data |-> message_data]

\* message_data = sys.stdin.buffer.read(message_length); json.loads(message_data)
ReadData(raw_length, message_length, message_data) ==
  Returned(raw_length, message_length, message_data, loads(message_data))

\* the lines after raw_length = sys.stdin.buffer.read(4)
ReadPayload(in, raw_length) ==
  IF NoHeader(raw_length)
  THEN [ret |-> JNull, raised |-> FALSE, eof |-> TRUE,
        raw_length |-> raw_length, message_length |-> 0, message_data |-> <<>>]
  ELSE ReadData(raw_length, FromBytes(raw_length),
                Take(Drop(in, Len(raw_length)), FromBytes(raw_length)))

\* read_message() on the remaining input `in`.  BufferedReader.read(k) returns
\* k bytes, or fewer only when the stream ends first.
read_message(in) == ReadPayload(in, Take(in, 4))

\* the input left unread after the call r of read_message
Rest(in, r) == Drop(in, Len(r.raw_length) + Len(r.message_data))

(***************************************************************************)
(* scan_jarm: the outcome of the subprocess is result = [returncode,       *)
(* stdout, stderr], the text of the two streams being str.                 *)
(***************************************************************************)
K_domain == Str(<<"d", "o", "m", "a", "i", "n", ":">>)
K_resolved_ip == Str(<<"r", "e", "s", "o", "l", "v", "e", "d", " ", "i", "p", ":">>)
K_jarm == Str(<<"j", "a", "r", "m", ":">>)
K_Domain == Str(<<"D", "o", "m", "a", "i", "n">>)
K_Resolved_IP == Str(<<"R", "e", "s", "o", "l", "v", "e", "d", " ", "I", "P">>)
K_JARM == Str(<<"J", "A", "R", "M">>)
K_error == Str(<<"e", "r", "r", "o", "r">>)
K_target == Str(<<"t", "a", "r", "g", "e", "t">>)
K_No_target_specified ==
  Str(<<"N", "o", " ", "t", "a", "r", "g", "e", "t", " ",
        "s", "p", "e", "c", "i", "f", "i", "e", "d">>)

\* line.split(':', 1)[1].strip()
ValueOf(line) == JStr(Strip(AfterColon(line)))

\* (variant: the prefixes compared without lower())
ParseStripped_cased(f, line) ==
  IF StartsWith(line, K_domain) THEN [f EXCEPT !.domain = ValueOf(line)]
  ELSE IF StartsWith(line, K_resolved_ip)
    THEN [f EXCEPT !.resolved_ip = ValueOf(line)]
  ELSE IF StartsWith(line, K_jarm) THEN [f EXCEPT !.jarm_hash = ValueOf(line)]
  ELSE f

\* (variant: a field that has a value keeps it)
ParseStripped_first(f, line) ==
  IF StartsWith(Lower(line), K_domain)
    THEN (IF f.domain = JNull THEN [f EXCEPT !.domain = ValueOf(line)] ELSE f)
  ELSE IF StartsWith(Lower(line), K_resolved_ip)
    THEN (IF f.resolved_ip = JNull THEN [f EXCEPT !.resolved_ip = ValueOf(line)] ELSE f)
  ELSE IF StartsWith(Lower(line), K_jarm)
    THEN (IF f.jarm_hash = JNull THEN [f EXCEPT !.jarm_hash = ValueOf(line)] ELSE f)
  ELSE f

\* the if/elif chain on the stripped line, f = [domain, resolved_ip, jarm_hash]
ParseStripped(f, line) ==
  IF StartsWith(Lower(line), K_domain) THEN [f EXCEPT !.domain = ValueOf(line)]
  ELSE IF StartsWith(Lower(line), K_resolved_ip)
    THEN [f EXCEPT !.resolved_ip = ValueOf(line)]
  ELSE IF StartsWith(Lower(line), K_jarm) THEN [f EXCEPT !.jarm_hash = ValueOf(line)]
  ELSE f

\* one pass of the for loop body on a line
ParseLine(f, rawline) == ParseStripped(f, Strip(rawline))

\* the for loop over the lines, in order
RECURSIVE ParseLines(_, _)
ParseLines(f, lines) ==
  IF lines = <<>> THEN f ELSE ParseLines(ParseLine(f, Head(lines)), Tail(lines))

\* the dict of the return statement
Fields(f) ==
  JDict(<< <<K_Domain, f.domain>>,
           <<K_Resolved_IP, f.resolved_ip>>,
           <<K_JARM, f.jarm_hash>> >>)

\* the fields parsed from the captured standard output
ParseOutput(out) ==
  Fields(ParseLines([domain |-> JNull, resolved_ip |-> JNull, jarm_hash |-> JNull],
                    SplitLines(Strip(out))))

\* (variant: the error text taken from stderr as it is)
scan_jarm_raw(result) ==
  IF result.returncode # 0
  THEN JDict(<< <<K_error, JStr(result.stderr)>> >>)
  ELSE ParseOutput(result.stdout)

\* (variant: only a positive exit status counts as a failure)
scan_jarm_positive(result) ==
  IF result.returncode > 0
  THEN JDict(<< <<K_error, JStr(Strip(result.stderr))>> >>)
  ELSE ParseOutput(result.stdout)

\* the value scan_jarm returns for the outcome of the subprocess
scan_jarm(result) ==
  IF result.returncode # 0
  THEN JDict(<< <<K_error, JStr(Strip(result.stderr))>> >>)
  ELSE ParseOutput(result.stdout)

(***************************************************************************)
(* The tests main makes on the decoded value.                              *)
(***************************************************************************)
\* whether `'target' in incoming` raises TypeError: int and bool are not
\* containers (None and the other false values have left the loop before)
InRaises(incoming) == incoming.t \in {"num", "true", "false", "null"}

\* `'target' in incoming`: a key of a dict, a substring of a str, an element
\* of a list
HasTarget(incoming) ==
  CASE incoming.t = "dict" -> K_target \in Keys(incoming)
    [] incoming.t = "str" -> IsSubstring(K_target, incoming.s)
    [] incoming.t = "list" ->
         \E i \in 1..Len(incoming.items) : incoming.items[i][2] = JStr(K_target)
    [] OTHER -> FALSE

\* whether incoming['target'] raises TypeError: only a dict takes a str index
IndexRaises(incoming) == incoming.t # "dict"

\* whether subprocess.run raises on the argument list: TypeError for an
\* argument that is not a str, ValueError for an embedded null character
RunRaises(target) == target.t # "str" \/ \E i \in 1..Len(target.s) : target.s[i] = 0

\* (variant: the target trimmed before it is handed to the tool)
Args_stripped(t) == <<JStr(Strip(t.s))>>

\* the positional arguments threaded_jarm.py is started with: the list of
\* line 34 after the interpreter and the script
Args(t) == <<t>>

(***************************************************************************)
(* The inputs: what the extension writes on the input stream before it     *)
(* closes it, and what the scan tool can answer.                           *)
(***************************************************************************)
MaxFrames == 2

T_a_io == Str(<<"a", ".", "i", "o">>)

Req_a == JDict(<< <<K_target, JStr(T_a_io)>> >>)
T_dash_B == Str(<<" ", "-", "B">>)
Req_b == JDict(<< <<Str(<<"i", "d">>), JNum(7)>>, <<K_target, JStr(T_dash_B)>> >>)
Req_empty == JDict(<<>>)
Req_other == JDict(<< <<Str(<<"u", "r", "l">>), JStr(T_a_io)>> >>)
Req_numtarget == JDict(<< <<K_target, JNum(5)>> >>)

\* {"id":7,"target":" -B"} as JSON.stringify writes it, without spaces
\* between the tokens
Raw_b ==
  Str(<<"{", "\"", "i", "d", "\"", ":", "7", ",", "\"", "t", "a", "r", "g", "e", "t", "\"",
        ":", "\"", " ", "-", "B", "\"", "}">>)

\* the payloads of the well-framed frames: JSON texts of mappings, JSON texts
\* of other values, and one text that is not JSON
Payloads ==
  {EncodeUtf8(dumps(v)) :
     v \in {Req_a, Req_empty, Req_other, Req_numtarget, JNum(5), JStr(K_target), JNull}}
  \cup {Raw_b, Str(<<"{">>)}

Frames == {WellFramed(p) : p \in Payloads}

\* the payload p under a header that announces one byte more
OneMissing(p) == ToBytes4(Len(p) + 1) \o p

\* the payload p without its last byte, under the header of the whole of p
CutShort(p) == ToBytes4(Len(p)) \o Take(p, Len(p) - 1)

\* what the stream can end with when it is cut short: one to three bytes of
\* a header, a payload one byte shorter than its header says that is still
\* a JSON text, and one that no longer is
Tails ==
  {<<15>>, <<0, 0>>, <<15, 0, 0>>, OneMissing(dumps(Req_a)), CutShort(dumps(Req_a))}

RECURSIVE Streams(_)
\* the concatenations of at most k frames
Streams(k) ==
  IF k = 0 THEN {<<>>}
  ELSE Streams(k - 1) \cup {st \o f : st \in Streams(k - 1), f \in Frames}

Inputs == Streams(MaxFrames) \cup {st \o t : st \in Streams(MaxFrames), t \in Tails}

Out_full ==
  Str(<<"D", "o", "m", "a", "i", "n", ":", " ", "a", ".", "i", "o", "\n",
        "R", "e", "s", "o", "l", "v", "e", "d", " ", "I", "P", ":", " ", "1", ".", "2", "\n",
        "J", "A", "R", "M", ":", " ", "0", "7", "d", "\n">>)
Out_lower ==
  Str(<<"d", "o", "m", "a", "i", "n", ":", " ", "a", ".", "i", "o", "\n",
        "r", "e", "s", "o", "l", "v", "e", "d", " ", "i", "p", ":", " ", "1", ".", "2", "\n",
        "j", "a", "r", "m", ":", " ", "0", "7", "d", "\n">>)
Out_mixed ==
  Str(<<" ", "j", "A", "r", "m", ":", " ", " ", "2", ":", "f", " ", "\n",
        "D", "O", "M", "A", "I", "N", ":", "A", "\n",
        "n", "o", "t", "e", ":", " ", "x", "\n">>)
Out_repeated ==
  Str(<<"D", "o", "m", "a", "i", "n", ":", " ", "x", "\n",
        "J", "A", "R", "M", ":", " ", "1", "\n",
        "d", "o", "m", "a", "i", "n", ":", " ", "j", "a", "r", "m", ":", " ", "3", "\n",
        "J", "a", "r", "m", ":", " ", "2", "\n">>)
Err_refused ==
  Str(<<" ", "c", "o", "n", "n", "e", "c", "t", "i", "o", "n", " ",
        "r", "e", "f", "u", "s", "e", "d", "\n">>)

Outcome(rc, out, err) == [returncode |-> rc, stdout |-> out, stderr |-> err]

\* the outcomes of the subprocess: exit status, captured stdout, captured stderr
ToolResults ==
  { Outcome(0, Out_full, <<>>), Outcome(0, Out_lower, <<>>), Outcome(0, Out_mixed, Err_refused),
    Outcome(0, <<>>, <<>>), Outcome(1, Out_full, Err_refused), Outcome(0 - 9, <<>>, <<>>),
    Outcome(0, Out_repeated, <<>>) }

NoResult == Outcome(0, <<>>, <<>>)

(***************************************************************************)
(* The dispatch loop.  pc is where main stands: "read" in read_message     *)
(* (Awaiting Request), "scan" in subprocess.run, "done" after the break,   *)
(* "raised" after an exception left main.  stdout is what has reached the  *)
(* peer, unflushed what sys.stdout still buffers.  reads, sent and runs    *)
(* record the calls of read_message, send_message and subprocess.run.      *)
(***************************************************************************)
VARIABLES stdin, stdout, unflushed, pc, exc, target, running, reads, sent, runs

vars == <<stdin, stdout, unflushed, pc, exc, target, running, reads, sent, runs>>

Init ==
  /\ stdin \in Inputs
  /\ stdout = <<>>
  /\ unflushed = <<>>
  /\ pc = "read"
  /\ exc = ""
  /\ target = JNull
  /\ running = 0
  /\ reads = <<>>
  /\ sent = <<>>
  /\ runs = <<>>

\* the message of the validation error
NoTarget == JDict(<< <<K_error, JStr(K_No_target_specified)>> >>)

\* (variant: the next request is read while the subprocess still runs)
AwaitingRequest_pipelined == pc \in {"read", "scan"}

\* main stands in read_message, about to read the next request
AwaitingRequest == pc = "read"

Raise(e) ==
  /\ pc' = "raised"
  /\ exc' = e
  /\ UNCHANGED <<stdout, unflushed, target, running, sent, runs>>

\* send_message(message) as the answer to the req-th call of read_message
Send(message, req, tool, result) ==
  /\ \E w \in {WriteFrame(Writer(stdout, unflushed), EncodeUtf8(dumps(message)))} :
       /\ stdout' = w.out
       /\ unflushed' = w.buffer
  /\ sent' = Append(sent, [msg |-> message, req |-> req, tool |-> tool,
                           result |-> result])

\* lines 70-80 on the result of read_message: the break, the validation
\* error, or the start of the scan; an exception where a step raises
Dispatch(incoming, raised) ==
  IF raised THEN Raise("ValueError")
  ELSE IF ~Truthy(incoming)
    THEN /\ pc' = "done"
         /\ UNCHANGED <<stdout, unflushed, exc, target, running, sent, runs>>
  ELSE IF InRaises(incoming) THEN Raise("TypeError")
  ELSE IF ~HasTarget(incoming)
    THEN /\ Send(NoTarget, Len(reads) + 1, FALSE, NoResult)
         /\ pc' = "read"
         /\ UNCHANGED <<exc, target, running, runs>>
  ELSE IF IndexRaises(incoming) THEN Raise("TypeError")
  ELSE IF RunRaises(Get(incoming, K_target))
    THEN /\ pc' = "raised"
         /\ exc' = IF Get(incoming, K_target).t # "str" THEN "TypeError" ELSE "ValueError"
         /\ target' = Get(incoming, K_target)
         /\ UNCHANGED <<stdout, unflushed, running, sent, runs>>
  ELSE /\ target' = Get(incoming, K_target)
       /\ runs' = Append(runs, [arg |-> Get(incoming, K_target),
                                 args |-> Args(Get(incoming, K_target)),
                                 req |-> Len(reads) + 1])
       /\ running' = running + 1
       /\ pc' = "scan"
       /\ UNCHANGED <<stdout, unflushed, exc, sent>>

\* one iteration of the while loop up to the point where it blocks again:
\* back in read_message, or in subprocess.run
Receive ==
  /\ AwaitingRequest
  /\ \E r \in {read_message(stdin)} :
       /\ stdin' = Rest(stdin, r)
       /\ reads' = Append(reads, r)
       /\ Dispatch(r.ret, r.raised)

\* (variant: the response to a request seen before is taken from a cache)
response_cached(result) ==
  LET Earlier == {k \in 1..Len(sent) :
                    sent[k].tool /\ reads[sent[k].req].ret = reads[Len(reads)].ret}
  IN IF Earlier = {} THEN scan_jarm(result) ELSE sent[CHOOSE k \in Earlier : TRUE].msg

\* line 80: response = scan_jarm(target), built anew from the outcome of
\* this subprocess
response(result) == scan_jarm(result)

\* the subprocess ends with some outcome; scan_jarm builds the response and
\* main sends it
ToolExit ==
  /\ pc = "scan"
  /\ \E result \in ToolResults :
       Send(response(result), Len(reads), TRUE, result)
  /\ running' = running - 1
  /\ pc' = "read"
  /\ UNCHANGED <<stdin, exc, target, reads, runs>>

Next == Receive \/ ToolExit

Spec == Init /\ [][Next]_vars

(***************************************************************************)
(* The channel alone: send_message writes frames into a pipe that an       *)
(* independent read_message reads.                                         *)
(***************************************************************************)
M_special ==
  JDict(<< <<Str(<<"k", "\"">>), JStr(Str(<<"a", "\"", "\\", "\n", "/">>) \o <<233, 127, 7>>)>>,
           <<Str(<<"n">>), JList(<<JNull, JNum(120), JBool(TRUE), JNum(0 - 5), JDict(<<>>)>>)>>
        >>)

\* the messages the bridge itself sends, requests, and one message with
\* escaped characters and nested values
Messages ==
  {scan_jarm(result) : result \in ToolResults}
  \cup {NoTarget, Req_a, Req_b, Req_empty, M_special}

InitRT ==
  /\ stdin = <<>>
  /\ stdout = <<>>
  /\ unflushed = <<>>
  /\ pc = "pipe"
  /\ exc = ""
  /\ target = JNull
  /\ running = 0
  /\ reads = <<>>
  /\ sent = <<>>
  /\ runs = <<>>

\* send_message(m) into the pipe
PipeSend ==
  /\ pc = "pipe"
  /\ Len(sent) < MaxFrames
  /\ \E m \in Messages :
       /\ stdin' = send_message(stdin, m)
       /\ sent' = Append(sent, [msg |-> m, req |-> 0, tool |-> FALSE, result |-> NoResult])
  /\ UNCHANGED <<stdout, unflushed, pc, exc, target, running, reads, runs>>

\* read_message() from the pipe, when a frame is waiting in it
PipeReceive ==
  /\ pc = "pipe"
  /\ stdin # <<>>
  /\ \E r \in {read_message(stdin)} :
       /\ stdin' = Rest(stdin, r)
       /\ reads' = Append(reads, r)
  /\ UNCHANGED <<stdout, unflushed, pc, exc, target, running, sent, runs>>

NextRT == PipeSend \/ PipeReceive

SpecRT == InitRT /\ [][NextRT]_vars

(***************************************************************************)
(* The length header alone, for every length of 32 bits.  The integers of  *)
(* the model checker end at 2^31 - 1, so a length n is carried here as its *)
(* two halves of 16 bits, n = lo + 65536 * hi; the payload, which the      *)
(* header does not depend on, is left out.                                 *)
(***************************************************************************)
MaxHeaders == 2

Wide(lo, hi) == [lo |-> lo, hi |-> hi]

\* the lengths of the messages the bridge sends, and lengths around the
\* limits of each byte of the header, up to 2^32 - 1
Lengths ==
  {Wide(Len(EncodeUtf8(dumps(m))), 0) : m \in Messages}
  \cup {Wide(0, 0), Wide(1, 0), Wide(255, 0), Wide(256, 0), Wide(65535, 0),
        Wide(0, 1), Wide(772, 258), Wide(65535, 255), Wide(0, 256),
        Wide(65535, 32767), Wide(0, 32768), Wide(65535, 65535)}

\* (variant: the header written with byteorder='big')
ToBytes4W_big(n) == <<n.hi \div 256, n.hi % 256, n.lo \div 256, n.lo % 256>>

\* len(encoded).to_bytes(4, byteorder='little') on the two halves
ToBytes4W(n) == Take(ToBytes4(n.lo), 2) \o Take(ToBytes4(n.hi), 2)

\* int.from_bytes(raw_length, byteorder='little') into the two halves
FromBytesW(raw) == Wide(FromBytes(Take(raw, 2)), FromBytes(Drop(raw, 2)))

InitLen ==
  /\ stdin = <<>>
  /\ stdout = <<>>
  /\ unflushed = <<>>
  /\ pc = "header"
  /\ exc = ""
  /\ target = JNull
  /\ running = 0
  /\ reads = <<>>
  /\ sent = <<>>
  /\ runs = <<>>

\* line 10: the header for a payload of n bytes goes into the pipe
WriteHeader ==
  /\ pc = "header"
  /\ Len(sent) < MaxHeaders
  /\ \E n \in Lengths :
       /\ stdin' = stdin \o ToBytes4W(n)
       /\ sent' = Append(sent, [n |-> n, header |-> ToBytes4W(n)])
  /\ UNCHANGED <<stdout, unflushed, pc, exc, target, running, reads, runs>>

\* lines 17 and 23: the next header is read from the pipe and decoded
ReadHeader ==
  /\ pc = "header"
  /\ stdin # <<>>
  /\ reads' = Append(reads, [raw_length |-> Take(stdin, 4),
                             message_length |-> FromBytesW(Take(stdin, 4))])
  /\ stdin' = Drop(stdin, 4)
  /\ UNCHANGED <<stdout, unflushed, pc, exc, target, running, sent, runs>>

NextLen == WriteHeader \/ ReadHeader

SpecLen == InitLen /\ [][NextLen]_vars

(***************************************************************************)
(* Properties.                                                             *)
(***************************************************************************)
\* a call of read_message met a framing error: a header of fewer than 4
\* bytes, a payload shorter than the header says, or a payload that is not
\* JSON
FramingError(r) ==
  /\ ~r.eof
  /\ \/ Len(r.raw_length) < 4
     \/ Len(r.message_data) < r.message_length
     \/ r.raised

\* the responses sent for the i-th call of read_message
Answers(i) == {k \in 1..Len(sent) : sent[k].req = i}

\* the loop is not in the middle of the iteration for the i-th read
Settled(i) == i < Len(reads) \/ pc # "scan"

\* C1: every well-framed request Message (a mapping) read gets exactly one
\* response; only a framing error leaves a request without one.
C1_OneResponsePerRequest ==
  \A i \in 1..Len(reads) :
    (~reads[i].eof /\ ~FramingError(reads[i]) /\ reads[i].ret.t = "dict" /\ Settled(i))
      => Cardinality(Answers(i)) = 1

\* a well-framed request that is a mapping without the key target
LacksTarget(r) ==
  /\ ~r.eof
  /\ ~FramingError(r)
  /\ r.ret.t = "dict"
  /\ K_target \notin Keys(r.ret)

\* C2: a request without the key target, the empty mapping included, is
\* answered with exactly {"error": "No target specified"} and the loop is back
\* in Awaiting Request.
C2_MissingTargetAnswered ==
  \A i \in 1..Len(reads) :
    LacksTarget(reads[i])
      => /\ \E k \in Answers(i) : sent[k].msg = NoTarget
         /\ i = Len(reads) => pc = "read"

\* C3: main leaves the loop only on end-of-stream (clean exit) or on a
\* framing error (exception): never on a well-framed payload that is JSON.
C3_ExitOnlyOnEofOrFramingError ==
  /\ pc = "done" => reads[Len(reads)].eof
  /\ pc = "raised" => FramingError(reads[Len(reads)])

\* C4: read_message never returns a message decoded from fewer payload bytes
\* than the header announced.
C4_ExactCountRead ==
  \A i \in 1..Len(reads) :
    (~reads[i].eof /\ ~reads[i].raised)
      => Len(reads[i].message_data) = reads[i].message_length

TruncatedHeader(r) == Len(r.raw_length) \in 1..3

\* C5: a header of 1, 2 or 3 bytes is fatal: read_message raises (it returns
\* neither None nor a message), main ends with the exception, not with the
\* break, and no response is sent for that read.
C5_TruncatedHeaderFatal ==
  \A i \in 1..Len(reads) :
    TruncatedHeader(reads[i])
      => /\ reads[i].raised
         /\ ~reads[i].eof
         /\ i = Len(reads)
         /\ pc = "raised"
         /\ Answers(i) = {}

\* a truncated header was read after a request had been answered
C5_Witness ==
  /\ Len(reads) >= 2
  /\ TruncatedHeader(reads[Len(reads)])
  /\ sent # <<>>

\* C6: every message written by send_message comes back equal from
\* read_message, which takes exactly the bytes of its frame, so that the
\* next frame is decoded from its own first byte.
C6_RoundTrip ==
  /\ Len(reads) <= Len(sent)
  /\ \A j \in 1..Len(reads) :
       /\ ~reads[j].raised
       /\ ~reads[j].eof
       /\ reads[j].ret = sent[j].msg
       /\ Len(reads[j].raw_length) = 4
       /\ Len(reads[j].message_data) = reads[j].message_length
  /\ Len(reads) = Len(sent) => stdin = <<>>

\* two different messages, one of them with escapes and nested values, have
\* gone through the pipe
C6_Witness ==
  /\ pc = "pipe"
  /\ Len(reads) = 2
  /\ reads[1].ret = M_special
  /\ reads[2].ret = ParseOutput(Out_mixed)

\* t is s without its leading and trailing whitespace
IsTrimOf(t, s) ==
  \E i \in 0..Len(s) : \E j \in i..Len(s) :
    /\ t = SubSeq(s, i + 1, j)
    /\ \A k \in 1..Len(s) : (k <= i \/ k > j) => IsSpace(s[k])
    /\ t # <<>> => (~IsSpace(t[1]) /\ ~IsSpace(t[Len(t)]))

\* C7: after a non-zero exit status the response is {"error": s} with s the
\* trimmed standard error, whatever standard output holds, and the loop is
\* back in Awaiting Request.
C7_ToolFailureReported ==
  \A k \in 1..Len(sent) :
    (sent[k].tool /\ sent[k].result.returncode # 0)
      => /\ sent[k].msg.t = "dict"
         /\ Len(sent[k].msg.items) = 1
         /\ sent[k].msg.items[1][1] = K_error
         /\ sent[k].msg.items[1][2].t = "str"
         /\ IsTrimOf(sent[k].msg.items[1][2].s, sent[k].result.stderr)
         /\ sent[k].req = Len(reads) => pc = "read"

\* a failure with text on standard error and on standard output was reported
\* and the request after it was answered
C7_Witness ==
  \E k \in 1..Len(sent) :
    /\ sent[k].tool
    /\ sent[k].result = Outcome(1, Out_full, Err_refused)
    /\ Len(sent) > k
    /\ sent[k + 1].req > sent[k].req

\* the prefixes in the order of the if/elif chain
Prefixes == <<K_domain, K_resolved_ip, K_jarm>>

\* the outcomes with exit status 0
ZeroExits == {o \in ToolResults : o.returncode = 0}

\* scan_jarm on each outcome of the tool
ScanOf == [o \in ToolResults |-> scan_jarm(o)]

\* the value of a field: null when no line of the output starts with the
\* prefix, else the trimmed text after the first colon of such a line
FieldOk(v, prefix, out) ==
  LET lines == SplitLines(out)
      M == {i \in 1..Len(lines) : StartsWith(Lower(Strip(lines[i])), prefix)}
  IN IF M = {} THEN v = JNull
     ELSE \E i \in M : v = JStr(Strip(AfterColon(lines[i])))

\* two outputs that differ only in the case of what precedes the first colon
\* of each line
SameUpToPrefixCase(a, b) ==
  LET la == SplitLines(a)
      lb == SplitLines(b)
  IN /\ Len(la) = Len(lb)
     /\ \A i \in 1..Len(la) :
          /\ Lower(Take(la[i], Find(la[i], 58))) = Lower(Take(lb[i], Find(lb[i], 58)))
          /\ AfterColon(la[i]) = AfterColon(lb[i])

\* null and the trimmed text after the first colon of each line
FieldCandidates(out) ==
  {JNull} \cup {JStr(Strip(AfterColon(SplitLines(out)[i]))) : i \in 1..Len(SplitLines(out))}

\* for each output and each prefix, the values FieldOk admits for the field
AdmittedValues ==
  [o \in ZeroExits |->
     [p \in 1..3 |-> {v \in FieldCandidates(o.stdout) : FieldOk(v, Prefixes[p], o.stdout)}]]

\* for each output, the outputs that differ from it only in the case of the
\* prefixes
SameUpToCase ==
  [o \in ZeroExits |-> {q \in ZeroExits : SameUpToPrefixCase(q.stdout, o.stdout)}]

\* C8: after exit status 0 the response has the fields Domain, Resolved IP
\* and JARM, each the trimmed text after the first colon of the line with
\* its prefix, matched without regard to case, or null without such a line.
C8_FieldsParsed ==
  \A k \in 1..Len(sent) :
    (sent[k].tool /\ sent[k].result.returncode = 0)
      => /\ sent[k].msg.t = "dict"
         /\ Len(sent[k].msg.items) = 3
         /\ sent[k].msg.items[1][1] = K_Domain
         /\ sent[k].msg.items[2][1] = K_Resolved_IP
         /\ sent[k].msg.items[3][1] = K_JARM
         /\ \A p \in 1..3 : sent[k].msg.items[p][2] \in AdmittedValues[sent[k].result][p]
         /\ \A o \in SameUpToCase[sent[k].result] : ScanOf[o] = sent[k].msg

\* an output with mixed-case prefixes, a colon in a value, a line without
\* prefix and no resolved ip line was parsed
C8_Witness ==
  \E k \in 1..Len(sent) :
    /\ sent[k].tool
    /\ sent[k].result.stdout = Out_mixed
    /\ sent[k].msg = JDict(<< <<K_Domain, JStr(Str(<<"A">>))>>,
                              <<K_Resolved_IP, JNull>>,
                              <<K_JARM, JStr(Str(<<"2", ":", "f">>))>> >>)

IsSuccessShape(m) ==
  /\ m.t = "dict"
  /\ Len(m.items) = 3
  /\ Keys(m) = {K_Domain, K_Resolved_IP, K_JARM}
  /\ \A i \in 1..3 : m.items[i][2].t \in {"str", "null"}

IsFailureShape(m) ==
  /\ m.t = "dict"
  /\ Len(m.items) = 1
  /\ Keys(m) = {K_error}
  /\ m.items[1][2].t = "str"

\* C9: every response sent has the success shape or the failure shape, never
\* both or a mix, and the success shape only after exit status 0.
C9_ResponseShapes ==
  \A k \in 1..Len(sent) :
    /\ IsSuccessShape(sent[k].msg) # IsFailureShape(sent[k].msg)
    /\ IsSuccessShape(sent[k].msg) => (sent[k].tool /\ sent[k].result.returncode = 0)

\* a success and the failure of a subprocess killed by a signal were both sent
C9_Witness ==
  /\ Len(sent) = 2
  /\ IsSuccessShape(sent[1].msg)
  /\ IsFailureShape(sent[2].msg)
  /\ sent[2].result.returncode < 0

\* the requests read so far
Requests == {i \in 1..Len(reads) : ~reads[i].eof}

\* C10: the i-th response answers the i-th request read, at most one
\* subprocess runs at a time, and a request is read only after the response
\* to the one before it has been written.
C10_InOrderNoPipelining ==
  /\ \A k \in 1..Len(sent) :
       /\ sent[k].req = k
       /\ sent[k].tool =>
            \E j \in 1..Len(runs) :
              runs[j].req = k /\ runs[j].arg = Get(reads[k].ret, K_target)
       /\ ~sent[k].tool => ~HasTarget(reads[k].ret)
  /\ running \in {0, 1}
  /\ running = 1 <=> pc = "scan"
  /\ Cardinality(Requests) <= Len(sent) + 1
  /\ Cardinality(Requests) = Len(sent) + 1 => pc # "read"

\* two scans for two different targets were answered one after the other
C10_Witness ==
  /\ Len(sent) = 2
  /\ sent[1].tool
  /\ sent[2].tool
  /\ runs[1].arg # runs[2].arg

\* C11: when the first call of read_message finds the stream at its end,
\* main has left the loop by the break, without an exception, having sent no
\* response, written no byte and started no subprocess.
C11_EofFirstTerminates ==
  (reads # <<>> /\ reads[1].raw_length = <<>>)
    => /\ pc = "done"
       /\ exc = ""
       /\ Len(reads) = 1
       /\ sent = <<>>
       /\ stdout = <<>>
       /\ unflushed = <<>>
       /\ runs = <<>>
       /\ running = 0

\* the first call of read_message has returned at the end of the stream
C11_Witness ==
  /\ Len(reads) = 1
  /\ reads[1].raw_length = <<>>
  /\ reads[1].eof
  /\ pc = "done"

\* C12: the header send_message writes is 4 bytes whose value as an unsigned
\* little-endian number is the length of the payload, for lengths up to
\* 2^32 - 1, and read_message, reading 4 bytes, decodes that same length.
C12_PrefixIsLength ==
  /\ \A k \in 1..Len(sent) :
       /\ Len(sent[k].header) = 4
       /\ \A i \in 1..4 : sent[k].header[i] \in 0..255
       /\ sent[k].header[1] + 256 * sent[k].header[2] = sent[k].n.lo
       /\ sent[k].header[3] + 256 * sent[k].header[4] = sent[k].n.hi
  /\ Len(reads) <= Len(sent)
  /\ \A j \in 1..Len(reads) :
       /\ reads[j].raw_length = sent[j].header
       /\ reads[j].message_length = sent[j].n
  /\ Len(stdin) = 4 * (Len(sent) - Len(reads))

\* the headers of a length of 2^31 or more and of a length of a message of
\* the bridge were written and read back
C12_Witness ==
  /\ pc = "header"
  /\ Len(reads) = 2
  /\ reads[1].message_length = Wide(65535, 65535)
  /\ reads[1].raw_length = <<255, 255, 255, 255>>
  /\ reads[2].message_length = Wide(Len(EncodeUtf8(dumps(NoTarget))), 0)

\* the call r of read_message returned a value (it did not raise) that main's
\* test `not incoming` takes for the end of the stream
TakenForEof(r) == ~r.raised /\ ~Truthy(r.ret)

\* C13: read_message returns None exactly when no byte was there for the
\* header, and no payload read from a frame is taken by main for the end of
\* the stream.
C13_EofMarkerOnlyAtEof ==
  \A i \in 1..Len(reads) :
    /\ (~reads[i].raised /\ reads[i].ret = JNull) <=> reads[i].raw_length = <<>>
    /\ TakenForEof(reads[i]) => reads[i].raw_length = <<>>

\* the subprocesses started for the i-th call of read_message
RunsFor(i) == {j \in 1..Len(runs) : runs[j].req = i}

\* the call r of read_message returned a Request: a mapping with a string
\* under the key target
IsScanRequest(r) ==
  /\ ~r.raised
  /\ r.ret.t = "dict"
  /\ K_target \in Keys(r.ret)
  /\ Get(r.ret, K_target).t = "str"

IsRequestRead(r) ==
  /\ ~r.raised
  /\ Len(r.raw_length) = 4
  /\ Len(r.message_data) = r.message_length
  /\ r.ret.t = "dict"

RECURSIVE RequestStream(_)
\* the input `in` is a sequence of whole frames that hold mappings
RequestStream(in) ==
  \/ in = <<>>
  \/ \E r \in {read_message(in)} : IsRequestRead(r) /\ RequestStream(Rest(in, r))

\* all that the stream carried, read or still unread, is well-framed requests
RequestsOnly ==
  /\ \A i \in 1..Len(reads) : reads[i].eof \/ IsRequestRead(reads[i])
  /\ RequestStream(stdin)

\* C15: on a stream of finitely many well-framed requests that is then
\* closed, main never ends by an exception, and when it has left the loop it
\* has read the stream to its end and answered every request, whatever the
\* answers were.
C15_TerminatesHavingAnsweredAll ==
  RequestsOnly
    => /\ pc # "raised"
       /\ pc = "done"
            => /\ stdin = <<>>
               /\ reads[Len(reads)].eof
               /\ \A i \in Requests : Cardinality(Answers(i)) = 1

\* the frame of each message the bridge has to send
FrameOf == [m \in {ScanOf[o] : o \in ToolResults} \cup {NoTarget} |-> Frame(m)]

RECURSIVE FramesOfFirst(_)
\* the frames of the first k responses, one after the other
FramesOfFirst(k) ==
  IF k = 0 THEN <<>>
  ELSE FramesOfFirst(k - 1)
         \o (IF sent[k].msg \in DOMAIN FrameOf THEN FrameOf[sent[k].msg]
             ELSE Frame(sent[k].msg))

\* C16: whenever main is blocked in read_message or in subprocess.run,
\* sys.stdout holds no unflushed byte and the peer has received exactly the
\* whole frames, header before payload, of all the responses produced so far.
C16_ResponsesFlushed ==
  pc \in {"read", "scan"}
    => /\ unflushed = <<>>
       /\ stdout = FramesOfFirst(Len(sent))

\* main is blocked in subprocess.run after it has answered a request without
\* target
C16_Witness ==
  /\ pc = "scan"
  /\ Len(sent) = 1
  /\ sent[1].msg = NoTarget
  /\ Len(stdout) = 4 + Len(EncodeUtf8(dumps(NoTarget)))
  /\ stdout[1] = Len(stdout) - 4

\* what a request and, where the tool ran, its outcome determine as the
\* response
ResponseTo(request, result) ==
  IF K_target \in Keys(request) THEN ScanOf[result] ELSE NoTarget

\* C17: a response is determined by its request and the outcome of the tool
\* for it alone: it is the same at every position and after every earlier
\* request, and two equal requests with equal outcomes in one run get equal
\* responses.
C17_ResponseDependsOnRequestOnly ==
  /\ \A k \in 1..Len(sent) :
       sent[k].msg = ResponseTo(reads[sent[k].req].ret, sent[k].result)
  /\ \A k \in 1..Len(sent) : \A l \in 1..Len(sent) :
       (/\ reads[sent[k].req].ret = reads[sent[l].req].ret
        /\ sent[k].result = sent[l].result)
         => sent[k].msg = sent[l].msg

\* the same request was served twice with different outcomes of the tool,
\* and each response is the one for its own outcome
C17_Witness ==
  /\ Len(sent) = 2
  /\ reads[1].ret = Req_a
  /\ reads[2].ret = Req_a
  /\ sent[1].result = Outcome(0, Out_full, <<>>)
  /\ sent[2].result = Outcome(1, Out_full, Err_refused)
  /\ sent[1].msg # sent[2].msg

\* the lines of the output that start with the prefix, by their position
Matching(prefix, lines) ==
  {i \in 1..Len(lines) : StartsWith(Lower(Strip(lines[i])), prefix)}

\* the value of the last line that starts with the prefix, null without
\* such a line
LastValue(prefix, lines) ==
  IF Matching(prefix, lines) = {} THEN JNull
  ELSE JStr(Strip(AfterColon(lines[MaxOr(Matching(prefix, lines), 0)])))

\* for each output, the value of the last line of each prefix
LastValues ==
  [o \in ZeroExits |->
     [p \in 1..3 |-> LastValue(Prefixes[p], SplitLines(Strip(o.stdout)))]]

\* for each output, the lines that start with more than one prefix
TwicePrefixed ==
  [o \in ZeroExits |->
     {i \in 1..Len(SplitLines(Strip(o.stdout))) :
        Cardinality({p \in 1..3 :
           i \in Matching(Prefixes[p], SplitLines(Strip(o.stdout)))}) > 1}]

\* C18: after exit status 0 each field has the value of the last line, in the
\* order of the output, that starts with its prefix; every line counts for
\* the first prefix it starts with in the order domain, resolved ip, jarm,
\* and so for one field at most.
C18_LastLineWins ==
  \A k \in 1..Len(sent) :
    (sent[k].tool /\ sent[k].result.returncode = 0)
      => /\ \A p \in 1..3 : sent[k].msg.items[p][2] = LastValues[sent[k].result][p]
         /\ TwicePrefixed[sent[k].result] = {}

\* an output with two domain lines and two jarm lines was parsed: each field
\* has the value of the later line, and the domain line that holds "jarm:"
\* in its value counts for Domain alone
C18_Witness ==
  \E k \in 1..Len(sent) :
    /\ sent[k].tool
    /\ sent[k].result = Outcome(0, Out_repeated, <<>>)
    /\ sent[k].msg = JDict(<< <<K_Domain, JStr(Str(<<"j", "a", "r", "m", ":", " ", "3">>))>>,
                              <<K_Resolved_IP, JNull>>,
                              <<K_JARM, JStr(Str(<<"2">>))>> >>)

====
